---------------------------- MODULE Spec2Model ----------------------------
(***************************************************************************)
(* A model of src/transaction_app.py: the Transaction entity and its       *)
(* validating __setattr__, the static validator, TransactionManager        *)
(* (add, sorts, filter, CSV load/save) and ExtendedTransactionManager      *)
(* (history log, history generator).                                       *)
(***************************************************************************)
EXTENDS Integers, Sequences, FiniteSets, TLC

VARIABLES
    transactions,   \* manager._transactions (list of Transaction)
    history,        \* manager._history (list of (now, "ADD", str(t)))
    file,           \* content of the CSV file on disk, or NoFile
    loaded,         \* the fresh manager built by from_csv (its _transactions)
    gen,            \* one get_history() generator object
    obj,            \* one Transaction bound in the caller, or NoObject
    last            \* the last call: its name, arguments, outcome

vars == <<transactions, history, file, loaded, gen, obj, last>>

----------------------------------------------------------------------------
(* Python values.  A value carries its type, a number (int/float/bool/     *)
(* datetime), a float kind (finite, nan, inf) and a text (str).            *)

\* The largest magnitude a float holds (sys.float_info.max), scaled down.
\* An int beyond it cannot be converted to float.
FloatMax == 2

\* datetime resolution per second (microseconds in Python), scaled down.
TicksPerSecond == 2

PyInt(n)      == [type |-> "int",      num |-> n, sp |-> "fin", txt |-> <<>>]
PyBool(n)     == [type |-> "bool",     num |-> n, sp |-> "fin", txt |-> <<>>]
PyFloat(n)    == [type |-> "float",    num |-> n, sp |-> "fin", txt |-> <<>>]
PyNaN         == [type |-> "float",    num |-> 0, sp |-> "nan", txt |-> <<>>]
PyInf         == [type |-> "float",    num |-> 0, sp |-> "inf", txt |-> <<>>]
PyStr(s)      == [type |-> "str",      num |-> 0, sp |-> "fin", txt |-> s]
PyDatetime(n) == [type |-> "datetime", num |-> n, sp |-> "fin", txt |-> <<>>]
PyNone        == [type |-> "NoneType", num |-> 0, sp |-> "fin", txt |-> <<>>]

\* isinstance(value, int): bool is a subclass of int.
IsInstanceInt(value) == value.type \in {"int", "bool"}
\* isinstance(value, (int, float))
IsInstanceNumber(value) == value.type \in {"int", "bool", "float"}
IsInstanceDatetime(value) == value.type = "datetime"
IsInstanceStr(value) == value.type = "str"

----------------------------------------------------------------------------
(* class Transaction                                                       *)

Unset == [type |-> "unset", num |-> 0, sp |-> "fin", txt |-> <<>>]
NoObject == [type |-> "NoObject"]

AttrNames == {"id", "date_time", "amount", "description"}

\* object.__new__(Transaction): no attribute set yet.
NewObject ==
    [type |-> "Transaction", id |-> Unset, date_time |-> Unset,
     amount |-> Unset, description |-> Unset]

\* The validation chain of Transaction.__setattr__: the exception it raises
\* for (name, value), or "none".
SetattrRaises(name, value) ==
    IF name = "id" /\ (~IsInstanceInt(value) \/ value.num < 0)
    THEN "ValueError"
    ELSE IF name = "date_time" /\ ~IsInstanceDatetime(value)
    THEN "ValueError"
    ELSE IF name = "amount" /\ ~IsInstanceNumber(value)
    THEN "ValueError"
    ELSE IF name = "description" /\ ~IsInstanceStr(value)
    THEN "ValueError"
    ELSE "none"

\* A __setattr__ that stores the value before it validates it.
Transaction_setattr_StoreFirst(self, name, value) ==
    [raised |-> SetattrRaises(name, value),
     obj |-> [self EXCEPT ![name] = value]]

\* Transaction.__setattr__(self, name, value): validate, then
\* super().__setattr__(name, value).
Transaction_setattr(self, name, value) ==
    IF SetattrRaises(name, value) # "none"
    THEN [raised |-> SetattrRaises(name, value), obj |-> self]
    ELSE [raised |-> "none", obj |-> [self EXCEPT ![name] = value]]

\* Transaction.__init__: four assignments in order; the first that raises
\* aborts the construction and the half-built object is never returned.
Transaction_init(id, date_time, amount, description) ==
    LET r1 == Transaction_setattr(NewObject, "id", id)
        r2 == Transaction_setattr(r1.obj, "date_time", date_time)
        r3 == Transaction_setattr(r2.obj, "amount", amount)
        r4 == Transaction_setattr(r3.obj, "description", description)
    IN  IF r1.raised # "none" THEN [raised |-> r1.raised, obj |-> NoObject]
        ELSE IF r2.raised # "none" THEN [raised |-> r2.raised, obj |-> NoObject]
        ELSE IF r3.raised # "none" THEN [raised |-> r3.raised, obj |-> NoObject]
        ELSE IF r4.raised # "none" THEN [raised |-> r4.raised, obj |-> NoObject]
        ELSE [raised |-> "none", obj |-> r4.obj]

\* A validator that forgets the sign of the id.
validate_transaction_data_NoSign(id, date_time, amount, description) ==
    IF ~IsInstanceInt(id) THEN FALSE
    ELSE IF ~IsInstanceDatetime(date_time) THEN FALSE
    ELSE IF ~IsInstanceNumber(amount) THEN FALSE
    ELSE IF ~IsInstanceStr(description) THEN FALSE
    ELSE TRUE

\* TransactionCollection.validate_transaction_data
validate_transaction_data(id, date_time, amount, description) ==
    IF ~IsInstanceInt(id) \/ id.num < 0 THEN FALSE
    ELSE IF ~IsInstanceDatetime(date_time) THEN FALSE
    ELSE IF ~IsInstanceNumber(amount) THEN FALSE
    ELSE IF ~IsInstanceStr(description) THEN FALSE
    ELSE TRUE

\* isinstance(x, Transaction)
IsTransaction(x) == x.type = "Transaction"

\* Transaction.__str__: f"... {self.amount:.2f} ...".  The .2f format of an
\* int converts it to float first and raises OverflowError beyond the float
\* range; a float is printed with two decimals, nan as "nan", inf as "inf".
\* str(date_time) prints the full value, microseconds included.
Transaction_str(self) ==
    IF self.amount.type \in {"int", "bool"}
       /\ (self.amount.num > FloatMax \/ self.amount.num < -FloatMax)
    THEN [raised |-> "OverflowError", text |-> <<>>]
    ELSE [raised |-> "none",
          text |-> <<self.id.num, self.date_time.num,
                     [num |-> self.amount.num, sp |-> self.amount.sp],
                     self.description.txt>>]

----------------------------------------------------------------------------
(* Python comparisons and list.sort                                        *)

Min(a, b) == IF a < b THEN a ELSE b

\* str < str: lexicographic on code points (case-sensitive).
StrLt(s, t) ==
    \E i \in 1..(Min(Len(s), Len(t)) + 1) :
        /\ \A j \in 1..(i - 1) : s[j] = t[j]
        /\ \/ i > Len(s) /\ i <= Len(t)
           \/ i <= Len(s) /\ i <= Len(t) /\ s[i] < t[i]

\* The position of a number on the number line; +inf lies beyond every
\* int and float of the model.
NumOrd(a) == IF a.sp = "inf" THEN FloatMax + 2 ELSE a.num

\* a < b on two keys of one kind (two str, or two numbers).  Every
\* comparison with nan is False.
PyLt(a, b) ==
    IF a.type = "str" THEN StrLt(a.txt, b.txt)
    ELSE a.sp # "nan" /\ b.sp # "nan" /\ NumOrd(a) < NumOrd(b)

\* a >= b on two numbers.
PyGe(a, b) == a.sp # "nan" /\ b.sp # "nan" /\ NumOrd(a) >= NumOrd(b)

Reverse(seq) == [i \in 1..Len(seq) |-> seq[Len(seq) + 1 - i]]

\* list.sort's count_run: the length of the initial run, which is strictly
\* descending when the second key is less than the first and non-descending
\* otherwise.
CountRun(seq, key) ==
    LET n == Len(seq)
        desc == n >= 2 /\ PyLt(seq[2][key], seq[1][key])
        Goes(i) == IF desc THEN PyLt(seq[i][key], seq[i - 1][key])
                   ELSE ~PyLt(seq[i][key], seq[i - 1][key])
    IN  [descending |-> desc,
         n |-> IF n < 2 THEN n
               ELSE CHOOSE r \in 2..n :
                        /\ \A i \in 2..r : Goes(i)
                        /\ r = n \/ ~Goes(r + 1)]

\* binarysort's search for the pivot's place in seq[l+1 .. r] (0-based l, r
\* as in the C code): right of every element the pivot is not less than.
RECURSIVE Bisect(_, _, _, _, _)
Bisect(seq, key, pivot, l, r) ==
    IF l >= r THEN l
    ELSE LET p == l + ((r - l) \div 2) IN
         IF PyLt(pivot[key], seq[p + 1][key])
         THEN Bisect(seq, key, pivot, l, p)
         ELSE Bisect(seq, key, pivot, p + 1, r)

\* binarysort: insert seq[start+1], seq[start+2], ... into the sorted prefix.
RECURSIVE BinarySort(_, _, _)
BinarySort(seq, key, start) ==
    IF start >= Len(seq) THEN seq
    ELSE LET pivot == seq[start + 1]
             l == Bisect(seq, key, pivot, 0, start)
             moved == [i \in 1..Len(seq) |->
                          IF i <= l THEN seq[i]
                          ELSE IF i = l + 1 THEN pivot
                          ELSE IF i <= start + 1 THEN seq[i - 1]
                          ELSE seq[i]]
         IN  BinarySort(moved, key, start + 1)

\* list.sort(key=lambda x: x.<key>) on a list shorter than 64: the initial
\* run (reversed when descending) extended to the whole list by binarysort.
ListSort(seq, key) ==
    IF Len(seq) < 2 THEN seq
    ELSE LET run == CountRun(seq, key)
             head == SubSeq(seq, 1, run.n)
             tail == SubSeq(seq, run.n + 1, Len(seq))
             first == (IF run.descending THEN Reverse(head) ELSE head) \o tail
         IN  BinarySort(first, key, run.n)

----------------------------------------------------------------------------
(* class TransactionManager / ExtendedTransactionManager                   *)

\* A base add that appends before it checks the type.
TransactionManager_add_transaction_AppendFirst(ts, transaction) ==
    IF ~IsTransaction(transaction)
    THEN [raised |-> "ValueError", transactions |-> Append(ts, transaction)]
    ELSE [raised |-> "none", transactions |-> Append(ts, transaction)]

\* TransactionManager.add_transaction
TransactionManager_add_transaction(ts, transaction) ==
    IF ~IsTransaction(transaction)
    THEN [raised |-> "ValueError", transactions |-> ts]
    ELSE [raised |-> "none", transactions |-> Append(ts, transaction)]

\* ExtendedTransactionManager.add_transaction: the base add, then the
\* history append, whose argument str(transaction) is evaluated first.
add_transaction(ts, hist, transaction, now) ==
    LET base == TransactionManager_add_transaction(ts, transaction) IN
    IF base.raised # "none"
    THEN [raised |-> base.raised, transactions |-> base.transactions,
          history |-> hist]
    ELSE LET s == Transaction_str(transaction) IN
         IF s.raised # "none"
         THEN [raised |-> s.raised, transactions |-> base.transactions,
               history |-> hist]
         ELSE [raised |-> "none", transactions |-> base.transactions,
               history |-> Append(hist, [time |-> now, action |-> "ADD",
                                         details |-> s.text])]

sort_by_description(ts) == ListSort(ts, "description")

sort_by_amount(ts) == ListSort(ts, "amount")

\* A filter that keeps only the amounts strictly above the threshold.
filter_by_amount_Strict(ts, min_amount) ==
    SelectSeq(ts, LAMBDA t : PyGe(t.amount, min_amount)
                             /\ ~PyGe(min_amount, t.amount))

\* filter_by_amount, consumed to the end
filter_by_amount(ts, min_amount) ==
    SelectSeq(ts, LAMBDA t : PyGe(t.amount, min_amount))

----------------------------------------------------------------------------
(* The CSV file.  A cell is the text the csv module wrote or read; the     *)
(* model keeps what kind of literal the text is, the number it denotes and,*)
(* for free text, its code points.                                         *)

Cell(lit, num, txt) == [lit |-> lit, num |-> num, txt |-> txt]
MissingCell == Cell("missing", 0, <<>>)

\* str(value), as csv.DictWriter writes a non-string field, or the string
\* itself.
StrCell(value) ==
    CASE value.type = "int" -> Cell("int", value.num, <<>>)
      [] value.type = "bool" -> Cell("bool", value.num, <<>>)
      [] value.type = "float" /\ value.sp = "fin" ->
             Cell("float", value.num, <<>>)
      [] value.type = "float" /\ value.sp = "nan" -> Cell("nan", 0, <<>>)
      [] value.type = "float" /\ value.sp = "inf" -> Cell("inf", 0, <<>>)
      [] value.type = "str" -> Cell("word", 0, value.txt)

\* date_time.strftime('%Y-%m-%d %H:%M:%S'): whole seconds only.
Strftime(date_time) ==
    Cell("datetime", date_time.num \div TicksPerSecond, <<>>)

\* TransactionManager.save_to_csv: a header row, then one row per
\* transaction; the file is opened with newline='' and keeps every
\* character of a field.
save_to_csv(ts) ==
    [exists |-> TRUE, header |-> TRUE,
     rows |-> [i \in 1..Len(ts) |->
                  [id |-> StrCell(ts[i].id),
                   date_time |-> Strftime(ts[i].date_time),
                   amount |-> StrCell(ts[i].amount),
                   description |-> StrCell(ts[i].description)]]]

\* open(filename, mode='r') without newline='': universal newlines turn
\* "\r\n" and a lone "\r" into "\n" before the csv reader sees the text,
\* inside quoted fields too.
RECURSIVE UniversalNewlines(_)
UniversalNewlines(txt) ==
    IF txt = <<>> THEN <<>>
    ELSE IF Head(txt) = 13 /\ Len(txt) >= 2 /\ txt[2] = 10
    THEN <<10>> \o UniversalNewlines(Tail(Tail(txt)))
    ELSE IF Head(txt) = 13
    THEN <<10>> \o UniversalNewlines(Tail(txt))
    ELSE <<Head(txt)>> \o UniversalNewlines(Tail(txt))

\* int(row['...'])
ParseInt(cell) ==
    CASE cell.lit = "int" -> [raised |-> "none", value |-> PyInt(cell.num)]
      [] cell.lit = "missing" -> [raised |-> "TypeError", value |-> PyNone]
      [] OTHER -> [raised |-> "ValueError", value |-> PyNone]

\* datetime.strptime(row['...'], '%Y-%m-%d %H:%M:%S')
Strptime(cell) ==
    CASE cell.lit = "datetime" ->
             [raised |-> "none",
              value |-> PyDatetime(cell.num * TicksPerSecond)]
      [] cell.lit = "missing" -> [raised |-> "TypeError", value |-> PyNone]
      [] OTHER -> [raised |-> "ValueError", value |-> PyNone]

\* float(row['...']): an integer literal beyond the float range reads as inf.
ParseFloat(cell) ==
    CASE cell.lit = "int" ->
             [raised |-> "none",
              value |-> IF cell.num > FloatMax THEN PyInf
                        ELSE PyFloat(cell.num)]
      [] cell.lit = "float" ->
             [raised |-> "none", value |-> PyFloat(cell.num)]
      [] cell.lit = "nan" -> [raised |-> "none", value |-> PyNaN]
      [] cell.lit = "inf" -> [raised |-> "none", value |-> PyInf]
      [] cell.lit = "missing" -> [raised |-> "TypeError", value |-> PyNone]
      [] OTHER -> [raised |-> "ValueError", value |-> PyNone]

\* row['...'] as read: the text of the cell, None for a cell the row lacks.
ReadText(cell) ==
    IF cell.lit = "missing" THEN PyNone
    ELSE PyStr(UniversalNewlines(cell.txt))

\* The Transaction(...) expression of load_from_csv for one row; the
\* arguments are evaluated in order, then the constructor validates.
RowTransaction(row) ==
    LET i == ParseInt(row.id)
        d == Strptime(row.date_time)
        a == ParseFloat(row.amount)
    IN  IF i.raised # "none" THEN [raised |-> i.raised, obj |-> NoObject]
        ELSE IF d.raised # "none" THEN [raised |-> d.raised, obj |-> NoObject]
        ELSE IF a.raised # "none" THEN [raised |-> a.raised, obj |-> NoObject]
        ELSE Transaction_init(i.value, d.value, a.value,
                              ReadText(row.description))

\* The for loop of load_from_csv from row k on: the first exception leaves
\* the loop with whatever was appended so far.
RECURSIVE LoadRows(_, _, _, _, _)
LoadRows(ts, hist, rows, k, now) ==
    IF k > Len(rows)
    THEN [raised |-> "none", transactions |-> ts, history |-> hist,
          row |-> 0]
    ELSE LET t == RowTransaction(rows[k]) IN
         IF t.raised # "none"
         THEN [raised |-> t.raised, transactions |-> ts, history |-> hist,
               row |-> k]
         ELSE LET r == add_transaction(ts, hist, t.obj, now) IN
              IF r.raised # "none"
              THEN [raised |-> r.raised, transactions |-> r.transactions,
                    history |-> r.history, row |-> k]
              ELSE LoadRows(r.transactions, r.history, rows, k + 1, now)

\* A load that commits nothing when a row fails.
load_from_csv_Atomic(ts, hist, f, now) ==
    IF ~f.exists
    THEN [raised |-> "FileNotFoundError", transactions |-> ts,
          history |-> hist, row |-> 0]
    ELSE LET r == LoadRows(ts, hist, f.rows, 1, now) IN
         IF r.raised # "none"
         THEN [raised |-> r.raised, transactions |-> ts, history |-> hist,
               row |-> r.row]
         ELSE r

\* TransactionManager.load_from_csv (self.add_transaction is the override)
load_from_csv(ts, hist, f, now) ==
    IF ~f.exists
    THEN [raised |-> "FileNotFoundError", transactions |-> ts,
          history |-> hist, row |-> 0]
    ELSE IF ~f.header
    THEN [raised |-> "none", transactions |-> ts, history |-> hist,
          row |-> 0]
    ELSE LoadRows(ts, hist, f.rows, 1, now)

\* TransactionManager.from_csv: cls(), then load_from_csv
from_csv(f, now) == load_from_csv(<<>>, <<>>, f, now)

----------------------------------------------------------------------------
(* Initial state: nothing constructed, an empty manager, no file.          *)

NoFile == [exists |-> FALSE, header |-> FALSE, rows |-> <<>>]
NoGenerator ==
    [state |-> "none", it |-> 0, yielded |-> <<>>, atStart |-> <<>>,
     atEnd |-> <<>>]

Init ==
    /\ transactions = <<>>
    /\ history = <<>>
    /\ file = NoFile
    /\ loaded = <<>>
    /\ gen = NoGenerator
    /\ obj = NoObject
    /\ last = [op |-> "init"]

----------------------------------------------------------------------------
(* One ExtendedTransactionManager driven through its interface.            *)

\* The longest collection the model builds.
MaxLen == 3

\* Transaction(1, <date>, amount, description), as the constructor builds it
Txn(amount, description) ==
    Transaction_init(PyInt(1), PyDatetime(0), amount, PyStr(description)).obj

\* The transactions a caller adds: finite floats, a tie in each key, nan,
\* and an int beyond the float range; descriptions "a" and "B".
Transactions ==
    {Txn(PyFloat(1), <<97>>), Txn(PyFloat(1), <<66>>),
     Txn(PyFloat(2), <<66>>), Txn(PyNaN, <<97>>),
     Txn(PyInt(FloatMax + 1), <<66>>)}

\* Arguments of add_transaction that are no Transaction.
NonTransactions == {PyNone, PyStr(<<97>>), PyInt(1)}

\* datetime.now(): the clock reading stored in a history entry.  No
\* operation of the manager reads it back, so one reading stands for all.
Times == {PyDatetime(0)}

\* Thresholds of filter_by_amount.
Thresholds == {PyFloat(1), PyFloat(2), PyNaN, PyInf}

Row(id, date_time, amount, description) ==
    [id |-> id, date_time |-> date_time, amount |-> amount,
     description |-> description]

\* Rows of a source file: two well-formed ones, and one malformed in each
\* way (id no integer, id negative, date-time unparsable, amount no number,
\* description cell absent).
GoodRows ==
    {Row(Cell("int", 1, <<>>), Cell("datetime", 0, <<>>),
         Cell("float", 1, <<>>), Cell("word", 0, <<97>>)),
     Row(Cell("int", 1, <<>>), Cell("datetime", 0, <<>>),
         Cell("int", 2, <<>>), Cell("word", 0, <<66>>))}

BadRows ==
    {Row(Cell("word", 0, <<97>>), Cell("datetime", 0, <<>>),
         Cell("float", 1, <<>>), Cell("word", 0, <<97>>)),
     Row(Cell("int", -1, <<>>), Cell("datetime", 0, <<>>),
         Cell("float", 1, <<>>), Cell("word", 0, <<97>>)),
     Row(Cell("int", 1, <<>>), Cell("word", 0, <<97>>),
         Cell("float", 1, <<>>), Cell("word", 0, <<97>>)),
     Row(Cell("int", 1, <<>>), Cell("datetime", 0, <<>>),
         Cell("word", 0, <<97>>), Cell("word", 0, <<97>>)),
     Row(Cell("int", 1, <<>>), Cell("datetime", 0, <<>>),
         Cell("float", 1, <<>>), MissingCell)}

SourceRows == GoodRows \cup BadRows

\* The files a load is pointed at: absent, or a header and up to two rows
\* (after a malformed first row, which ends the load, a well-formed second).
SourceFiles ==
    {NoFile}
    \cup {[exists |-> TRUE, header |-> TRUE, rows |-> rows] :
            rows \in {<<>>} \cup {<<r>> : r \in SourceRows}
                     \cup {<<r, q>> : r \in GoodRows, q \in SourceRows}
                     \cup {<<r, q>> : r \in BadRows, q \in GoodRows}}

\* manager.add_transaction(x)
AddTransaction(x, now) ==
    LET r == add_transaction(transactions, history, x, now) IN
    /\ Len(transactions) < MaxLen
    /\ transactions' = r.transactions
    /\ history' = r.history
    /\ last' = [op |-> "add_transaction", arg |-> x, raised |-> r.raised]
    /\ UNCHANGED <<file, loaded, gen, obj>>

\* manager.sort_by_description()
SortByDescription ==
    /\ transactions' = sort_by_description(transactions)
    /\ last' = [op |-> "sort_by_description"]
    /\ UNCHANGED <<history, file, loaded, gen, obj>>

\* manager.sort_by_amount()
SortByAmount ==
    /\ transactions' = sort_by_amount(transactions)
    /\ last' = [op |-> "sort_by_amount"]
    /\ UNCHANGED <<history, file, loaded, gen, obj>>

\* list(manager.filter_by_amount(min_amount))
FilterByAmount(min_amount) ==
    /\ last' = [op |-> "filter_by_amount", arg |-> min_amount,
                result |-> filter_by_amount(transactions, min_amount)]
    /\ UNCHANGED <<transactions, history, file, loaded, gen, obj>>

\* manager.load_from_csv(filename), the file holding f
LoadFromCsv(f, now) ==
    LET r == load_from_csv(transactions, history, f, now) IN
    /\ Len(transactions) + Len(f.rows) <= MaxLen
    /\ transactions' = r.transactions
    /\ history' = r.history
    /\ last' = [op |-> "load_from_csv", source |-> f, raised |-> r.raised,
                row |-> r.row]
    /\ UNCHANGED <<file, loaded, gen, obj>>

\* manager = ExtendedTransactionManager.from_csv(filename); when the load
\* raises, the name manager keeps the manager it was bound to.
FromCsv(f, now) ==
    LET r == from_csv(f, now) IN
    /\ transactions' = IF r.raised = "none" THEN r.transactions
                       ELSE transactions
    /\ history' = IF r.raised = "none" THEN r.history ELSE history
    /\ last' = [op |-> "from_csv", source |-> f, raised |-> r.raised,
                row |-> r.row]
    /\ UNCHANGED <<file, loaded, gen, obj>>

Next ==
    \/ \E x \in Transactions \cup NonTransactions, now \in Times :
           AddTransaction(x, now)
    \/ SortByDescription
    \/ SortByAmount
    \/ \E m \in Thresholds : FilterByAmount(m)
    \/ \E f \in SourceFiles, now \in Times : LoadFromCsv(f, now)
    \/ \E f \in SourceFiles, now \in Times : FromCsv(f, now)

Spec == Init /\ [][Next]_vars

\* The collection operations without the file: adds, sorts, filter.
NextCore ==
    \/ \E x \in Transactions \cup NonTransactions, now \in Times :
           AddTransaction(x, now)
    \/ SortByDescription
    \/ SortByAmount
    \/ \E m \in Thresholds : FilterByAmount(m)

SpecCore == Init /\ [][NextCore]_vars

\* Bulk loads only: every record of the collection came from a file.
NextLoad ==
    \/ \E f \in SourceFiles, now \in Times : LoadFromCsv(f, now)
    \/ \E f \in SourceFiles, now \in Times : FromCsv(f, now)

SpecLoad == Init /\ [][NextLoad]_vars

----------------------------------------------------------------------------
(* Claims about the manager.                                               *)

\* C1: on the ExtendedTransactionManager every add_transaction(t) with a
\* Transaction t succeeds, appends t at the end of the collection and
\* appends exactly one history entry, of kind "ADD" and with str(t) as its
\* third component, leaving the earlier entries as they were.
C1_AddAppendsAndLogs ==
    [][(last'.op = "add_transaction" /\ IsTransaction(last'.arg)) =>
         /\ last'.raised = "none"
         /\ transactions' = Append(transactions, last'.arg)
         /\ Len(history') = Len(history) + 1
         /\ SubSeq(history', 1, Len(history)) = history
         /\ history'[Len(history')].action = "ADD"
         /\ history'[Len(history')].details
                = Transaction_str(last'.arg).text]_vars

\* C2: add_transaction with an argument that is no Transaction raises the
\* type-mismatch error (ValueError) and changes neither the collection nor
\* the history log.
C2_InvalidAddChangesNothing ==
    [][(last'.op = "add_transaction" /\ ~IsTransaction(last'.arg)) =>
         /\ last'.raised = "ValueError"
         /\ transactions' = transactions
         /\ history' = history]_vars

C2_Witness ==
    /\ last.op = "add_transaction"
    /\ last.arg = PyNone
    /\ last.raised = "ValueError"
    /\ Len(transactions) = 2
    /\ Len(history) = 2

\* A row as the storage format defines it: an integer id that is not
\* negative, a date-time, a numeric amount, a description.
RowWellFormed(row) ==
    /\ row.id.lit = "int" /\ row.id.num >= 0
    /\ row.date_time.lit = "datetime"
    /\ row.amount.lit \in {"int", "float", "nan", "inf"}
    /\ row.description.lit # "missing"

\* C4: a load from an existing source whose rows 1..k-1 are well-formed
\* and whose row k is malformed raises at row k, and leaves the collection
\* as it was before the load followed by the transactions of rows 1..k-1
\* in row order.
C4_LoadStopsAtFirstBadRow ==
    [][(last'.op = "load_from_csv" /\ last'.source.exists) =>
         \A k \in 1..Len(last'.source.rows) :
            (/\ \A i \in 1..(k - 1) : RowWellFormed(last'.source.rows[i])
             /\ ~RowWellFormed(last'.source.rows[k]))
            => /\ last'.raised \in {"ValueError", "TypeError"}
               /\ last'.row = k
               /\ transactions' =
                     transactions \o
                     [i \in 1..(k - 1) |->
                         RowTransaction(last'.source.rows[i]).obj]]_vars

C4_Witness ==
    /\ last.op = "load_from_csv"
    /\ last.raised = "ValueError"
    /\ last.row = 2
    /\ Len(last.source.rows) = 2
    /\ Len(transactions) = 2

\* The records of ts whose amount is >= m, each once, in the order of ts.
KeptBy(ts, m) ==
    LET kept == {i \in 1..Len(ts) : PyGe(ts[i].amount, m)}
        Nth(j) == CHOOSE i \in kept : Cardinality({x \in kept : x < i}) = j - 1
    IN  [j \in 1..Cardinality(kept) |-> ts[Nth(j)]]

\* C5: filter_by_amount(m) yields exactly the transactions with amount >= m,
\* each once and in collection order (none when none qualifies); consuming
\* it changes nothing, and a second call yields the same sequence.
C5_FilterYieldsQualifying ==
    [][last'.op = "filter_by_amount" =>
         /\ last'.result = KeptBy(transactions, last'.arg)
         /\ transactions' = transactions
         /\ history' = history
         /\ filter_by_amount(transactions', last'.arg) = last'.result]_vars

C5_Witness ==
    /\ last.op = "filter_by_amount"
    /\ last.arg = PyFloat(2)
    /\ Len(transactions) = 3
    /\ Len(last.result) = 2
    /\ \E i \in 1..3 : transactions[i].amount = PyFloat(1)

\* No record stands after one whose key is strictly greater.
NonDecreasing(ts, key) ==
    \A i \in 1..Len(ts) : \A j \in (i + 1)..Len(ts) :
        ~PyLt(ts[j][key], ts[i][key])

Count(ts, t) == Cardinality({i \in 1..Len(ts) : ts[i] = t})

SameRecords(ts, us) ==
    /\ Len(ts) = Len(us)
    /\ \A i \in 1..Len(ts) : Count(ts, ts[i]) = Count(us, ts[i])

\* Records with equal keys stand in us in the order they had in ts.
Stable(ts, us, key) ==
    \A i \in 1..Len(us) : \A j \in (i + 1)..Len(us) :
        (us[i][key] = us[j][key] /\ us[i] # us[j]) =>
            \E a \in 1..Len(ts) : \E b \in (a + 1)..Len(ts) :
                ts[a] = us[i] /\ ts[b] = us[j]

\* C6: each sort reorders the collection into a non-decreasing ordering by
\* its key, keeps exactly the same records, keeps records with equal keys
\* in their relative order, and applied again changes nothing.
C6_SortsOrderAndAreIdempotent ==
    [][/\ last'.op = "sort_by_amount" =>
            /\ NonDecreasing(transactions', "amount")
            /\ SameRecords(transactions, transactions')
            /\ Stable(transactions, transactions', "amount")
            /\ sort_by_amount(transactions') = transactions'
       /\ last'.op = "sort_by_description" =>
            /\ NonDecreasing(transactions', "description")
            /\ SameRecords(transactions, transactions')
            /\ Stable(transactions, transactions', "description")
            /\ sort_by_description(transactions') = transactions']_vars

\* C10: the history log has as many entries as the collection has
\* transactions, whatever adds, loads and sorts were applied.
C10_HistoryLengthEqualsCollection == Len(history) = Len(transactions)

----------------------------------------------------------------------------
(* The history generator, interleaved with adds.                           *)

\* get_history(): a generator object whose body has not started.
get_history ==
    [state |-> "created", it |-> 0, yielded |-> <<>>, atStart |-> <<>>,
     atEnd |-> <<>>]

\* A generator that iterates over a copy of the log taken at its start.
HistoryNext_Snapshot(g, hist) ==
    LET started == IF g.state = "created"
                   THEN [g EXCEPT !.atStart = hist] ELSE g
    IN  IF started.it < Len(started.atStart)
        THEN [started EXCEPT !.state = "suspended",
                             !.it = started.it + 1,
                             !.yielded = Append(started.yielded,
                                                started.atStart[started.it + 1])]
        ELSE [started EXCEPT !.state = "done", !.atEnd = hist]

\* next(g) on the generator: "for record in self._history: yield record".
\* The list iterator keeps an index into the list itself and compares it
\* with the list's current length at every step.  atStart and atEnd record
\* the log as it was when the iteration started and when it finished.
HistoryNext(g, hist) ==
    LET started == IF g.state = "created"
                   THEN [g EXCEPT !.atStart = hist] ELSE g
    IN  IF started.it < Len(hist)
        THEN [started EXCEPT !.state = "suspended",
                             !.it = started.it + 1,
                             !.yielded = Append(started.yielded,
                                                hist[started.it + 1])]
        ELSE [started EXCEPT !.state = "done", !.atEnd = hist]

\* g = manager.get_history()
GetHistory ==
    /\ gen' = get_history
    /\ last' = [op |-> "get_history"]
    /\ UNCHANGED <<transactions, history, file, loaded, obj>>

\* next(g), until the generator is exhausted
NextRecord ==
    /\ gen.state \in {"created", "suspended"}
    /\ gen' = HistoryNext(gen, history)
    /\ last' = [op |-> "next"]
    /\ UNCHANGED <<transactions, history, file, loaded, obj>>

NextHist ==
    \/ \E x \in Transactions \cup NonTransactions, now \in Times :
           AddTransaction(x, now)
    \/ GetHistory
    \/ NextRecord

SpecHist == Init /\ [][NextHist]_vars

\* C9 as stated: a finished iteration has yielded exactly the entries that
\* were in the log when the iteration started.
C9_HistorySnapshot ==
    gen.state = "done" => gen.yielded = gen.atStart

\* C9 as the code has it: the entries come in append order from the live
\* log, so a finished iteration has yielded every entry in the log at the
\* moment it finished, those appended after its start included; a new
\* generator starts from the first entry.
C9_HistoryIsLive ==
    /\ gen.state = "created" => gen.it = 0 /\ gen.yielded = <<>>
    /\ gen.state \in {"suspended", "done"} =>
           gen.yielded = SubSeq(history, 1, gen.it)
    /\ gen.state = "done" => gen.yielded = gen.atEnd

C9_Witness ==
    /\ gen.state = "done"
    /\ Len(gen.atStart) = 1
    /\ Len(gen.yielded) = 2

----------------------------------------------------------------------------
(* Save to a file, then load the file into a fresh manager.                *)

\* The longest collection that is saved and loaded back.
MaxCsvLen == 2

\* Transactions with the free text and the sub-second times the round trip
\* has to carry: a line feed and a carriage return inside a description, an
\* empty description, an int amount, a time between two whole seconds.
CsvTransactions ==
    {Transaction_init(PyInt(1), PyDatetime(0), PyFloat(1),
                      PyStr(<<97>>)).obj,
     Transaction_init(PyInt(0), PyDatetime(1), PyInt(2), PyStr(<<>>)).obj,
     Transaction_init(PyInt(1), PyDatetime(0), PyFloat(1),
                      PyStr(<<97, 10>>)).obj,
     Transaction_init(PyInt(1), PyDatetime(0), PyFloat(2),
                      PyStr(<<97, 13, 66>>)).obj}

\* manager.save_to_csv(filename)
SaveToCsv ==
    /\ file' = save_to_csv(transactions)
    /\ last' = [op |-> "save_to_csv"]
    /\ UNCHANGED <<transactions, history, loaded, gen, obj>>

\* other = ExtendedTransactionManager.from_csv(filename), the file as it is
\* on disk; the first manager stays bound.
LoadBack(now) ==
    LET r == from_csv(file, now) IN
    /\ loaded' = IF r.raised = "none" THEN r.transactions ELSE loaded
    /\ last' = [op |-> "load_back", raised |-> r.raised]
    /\ UNCHANGED <<transactions, history, file, gen, obj>>

NextCsv ==
    \/ \E x \in CsvTransactions, now \in Times :
           Len(transactions) < MaxCsvLen /\ AddTransaction(x, now)
    \/ SaveToCsv
    \/ \E now \in Times : LoadBack(now)

SpecCsv == Init /\ [][NextCsv]_vars

\* Equal in id, in amount to two decimals, in description, and in
\* timestamp to the second.
SameToPrecision(a, b) ==
    /\ a.id.num = b.id.num
    /\ a.amount.sp = b.amount.sp
    /\ a.amount.sp = "fin" => a.amount.num = b.amount.num
    /\ a.description.txt = b.description.txt
    /\ a.date_time.num \div TicksPerSecond
          = b.date_time.num \div TicksPerSecond

\* C3: a collection saved and then loaded into a fresh manager comes back
\* with as many transactions, in the same order, each equal to the
\* original to the stated precision; the file has a header row even when
\* the collection is empty.
C3_RoundTrip ==
    (last.op = "load_back" /\ file = save_to_csv(transactions)) =>
        /\ file.header
        /\ last.raised = "none"
        /\ Len(loaded) = Len(transactions)
        /\ \A i \in 1..Len(transactions) :
               SameToPrecision(loaded[i], transactions[i])

----------------------------------------------------------------------------
(* The Transaction entity on its own: constructions, attribute             *)
(* assignments and the static validator, on arbitrary Python values.       *)

TxnValues ==
    {PyInt(-1), PyInt(1), PyFloat(1), PyStr(<<97>>), PyDatetime(0)}

\* t = Transaction(id, date_time, amount, description); on an exception the
\* caller's name t keeps its previous binding.
Construct(id, date_time, amount, description) ==
    LET r == Transaction_init(id, date_time, amount, description) IN
    /\ obj' = IF r.raised = "none" THEN r.obj ELSE obj
    /\ last' = [op |-> "Transaction",
                args |-> <<id, date_time, amount, description>>,
                raised |-> r.raised, result |-> r.obj]
    /\ UNCHANGED <<transactions, history, file, loaded, gen>>

\* t.<name> = value on the bound Transaction
Assign(name, value) ==
    LET r == Transaction_setattr(obj, name, value) IN
    /\ obj # NoObject
    /\ obj' = r.obj
    /\ last' = [op |-> "setattr", name |-> name, value |-> value,
                raised |-> r.raised, before |-> obj]
    /\ UNCHANGED <<transactions, history, file, loaded, gen>>

\* TransactionCollection.validate_transaction_data(...) called on its own
Validate(id, date_time, amount, description) ==
    /\ last' = [op |-> "validate_transaction_data",
                args |-> <<id, date_time, amount, description>>,
                result |-> validate_transaction_data(id, date_time, amount,
                                                     description)]
    /\ UNCHANGED <<transactions, history, file, loaded, gen, obj>>

NextTxn ==
    \/ \E id, date_time, amount, description \in TxnValues :
           Construct(id, date_time, amount, description)
    \/ \E name \in AttrNames, value \in TxnValues : Assign(name, value)
    \/ \E id, date_time, amount, description \in TxnValues :
           Validate(id, date_time, amount, description)

SpecTxn == Init /\ [][NextTxn]_vars

\* The four field rules as the data model states them.
FieldOK(name, value) ==
    CASE name = "id" -> value.type \in {"int", "bool"} /\ value.num >= 0
      [] name = "date_time" -> value.type = "datetime"
      [] name = "amount" -> value.type \in {"int", "bool", "float"}
      [] name = "description" -> value.type = "str"

WellFormed(t) ==
    /\ t.type = "Transaction"
    /\ \A name \in AttrNames : FieldOK(name, t[name])

ArgsOK(args) ==
    /\ FieldOK("id", args[1])
    /\ FieldOK("date_time", args[2])
    /\ FieldOK("amount", args[3])
    /\ FieldOK("description", args[4])

\* C7: every observable Transaction satisfies the four field rules; an
\* invalid assignment raises the validation error and leaves the object as
\* it was; a construction with an invalid field raises and yields no object,
\* while valid ones succeed.
C7_FieldInvariant ==
    /\ obj # NoObject => WellFormed(obj)
    /\ last.op = "setattr" =>
           IF FieldOK(last.name, last.value)
           THEN last.raised = "none"
                /\ obj = [last.before EXCEPT ![last.name] = last.value]
           ELSE last.raised = "ValueError" /\ obj = last.before
    /\ last.op = "Transaction" =>
           IF ArgsOK(last.args)
           THEN last.raised = "none" /\ WellFormed(last.result)
                /\ obj = last.result
           ELSE last.raised = "ValueError" /\ last.result = NoObject

C7_Witness ==
    /\ last.op = "setattr"
    /\ last.raised = "ValueError"
    /\ last.name = "id"
    /\ last.value = PyInt(-1)
    /\ obj # NoObject

\* C8: validate_transaction_data returns TRUE exactly when the constructor
\* succeeds on the same four arguments, and FALSE exactly when it raises.
C8_ValidateAgreesWithConstruct ==
    /\ last.op = "validate_transaction_data" =>
           (last.result <=>
              Transaction_init(last.args[1], last.args[2], last.args[3],
                               last.args[4]).raised = "none")
    /\ last.op = "Transaction" =>
           ((last.raised = "none") <=>
              validate_transaction_data(last.args[1], last.args[2],
                                        last.args[3], last.args[4]))

C8_Witness ==
    /\ last.op = "validate_transaction_data"
    /\ last.result = FALSE
    /\ last.args[1] = PyInt(-1)
    /\ last.args[3] = PyFloat(1)

=============================================================================
